---- MODULE Spec2Model ----
(***************************************************************************)
(* Model of the anomaly-model lifecycle of src/src/ml_engine.py: the       *)
(* module globals, train_anomaly_model, the auto-retrain monitor thread,   *)
(* start/stop of the monitor, load_or_train_model, force_retrain and       *)
(* predict_anomaly, each split at the points where another thread can      *)
(* observe or change the shared globals.                                   *)
(*                                                                         *)
(* Time is kept relative: last_training_time holds the seconds elapsed     *)
(* since the instant the code stored (the code only ever evaluates         *)
(* now - last_training_time < 30), saturating at the cooldown, and a       *)
(* sleeping thread holds the seconds it still has to sleep.                *)
(*                                                                         *)
(* Spec lets every process act.  SpecRetrain, SpecServe and SpecLive are   *)
(* Spec with some of the processes staying idle: every behaviour of one    *)
(* of them is a behaviour of Spec.  The callers of predict_anomaly write   *)
(* nothing but their own locals, so SpecRetrain leaves them out; they      *)
(* never read retrain_lock, the monitor flag or the thread, so SpecServe   *)
(* leaves out force_retrain and Start / Stop.  SpecForce starts from the   *)
(* process as the start-up leaves it and has the monitor and the callers   *)
(* of force_retrain, with fair scheduling.  SpecFields runs                *)
(* predict_anomaly alone on a scaler and a model of any number of fields.  *)
(*                                                                         *)
(* src/src/geofencing.py is modelled as two functions of their arguments   *)
(* and of the rows of geofences.csv: SpecPolygon applies point_in_polygon  *)
(* to every polygon on a small integer grid, SpecGeo applies               *)
(* check_geofences to every short list of zone cells.                      *)
(***************************************************************************)
EXTENDS Integers, Sequences, FiniteSets, TLC

\* ---------------------------------------------------------------- bounds
MaxThreads == 2     \* monitor thread objects that can exist at once
NForcers == 2       \* concurrent callers of force_retrain
NReaders == 1       \* concurrent callers of predict_anomaly
TickStep == 10      \* seconds by which one Tick advances the clock
GridMax == 4        \* vertices lie on the even coordinates 0..GridMax
MaxVertices == 4    \* most vertices of a polygon handed to point_in_polygon
MaxZones == 3       \* most rows of geofences.csv
MaxFields == 7      \* most fields a scaler or model read from disk declares

\* ------------------------------------------------------- program constants
COOLDOWN == 30      \* timedelta(seconds=30) in should_retrain
POLL == 10          \* time.sleep(10) in auto_retrain_monitor
BASIC_FIELDS == 2   \* columns of the basic schema / n_features default
ENHANCED_FIELDS == 5 \* columns of the enhanced schema
MIN_EVENTS == 5     \* len(locations_df) < 5 -> insufficient data
ENHANCED_ABOVE == 10 \* len(locations_df) > 10 -> enhanced schema

None == 0           \* Python None for an object reference / thread
NoTime == -1        \* last_training_time is None
NoHash == -1        \* last_data_hash is None
HashError == 0      \* calculate_data_hash returns 0 on an exception
CurrentFp == 1      \* the hash of the CSV files as they are now
StaleFp == 2        \* the hash of the CSV files as they were at some earlier time
Free == -1          \* retrain_lock is not held
Infinity == 1000    \* the float inf among the coordinates json.loads returns
NoRows == -1        \* no training run of the process is going on
Missing == -1       \* artifact file does not exist
Corrupt == -2       \* artifact file exists but cannot be unpickled
Latest == -3        \* artifact written by the run of this process that wrote last
Earlier == -4       \* artifact written by an earlier run of this process

\* ------------------------------------------------------------- processes
StartupId == 0
Threads == 1..MaxThreads
Forcers == 11..(10 + NForcers)
Readers == 21..(20 + NReaders)
Trainers == {StartupId} \cup Threads \cup Forcers
Procs == Trainers \cup Readers

\* Objects: every training run creates one scaler and one model, both named
\* by the run.  OldRuns are runs of an earlier process whose artifacts may
\* be on disk at startup; NewRuns name the runs of this process (a name is
\* reused once nothing refers to it any more).
OldRuns == {1, 2}
NewRuns == 3..(5 + 2 * NReaders + Cardinality(Trainers))
Runs == OldRuns \cup NewRuns
\* numbers of rows locations.csv is read with: both sides of both thresholds
EventCounts == {0, 4, 5, 10, 11}

VARIABLES
    anomaly_model,       \* global: run naming the model object, or None
    scaler,              \* global: run naming the scaler object, or None
    scalerN,             \* heap: run -> n_features_in_ of its scaler, 0 = not fitted
    modelN,              \* heap: run -> n_features_in_ of its model, 0 = not fitted
    model_file,          \* MODEL_FILE: Missing, Corrupt, an old run, Latest
    scaler_file,         \* SCALER_FILE: Missing, Corrupt, an old run, Latest, Earlier
    last_training_time,  \* global: NoTime, or seconds since the stored instant
    last_data_hash,      \* global: NoHash, HashError, CurrentFp or StaleFp
    retrain_lock,        \* Free or the process holding it
    auto_retrain_enabled,
    monitor_thread,      \* global: None or the latest thread started
    pc,                  \* process -> position in its code
    tr,                  \* trainer -> state of the training run it executes
    remaining,           \* thread -> seconds left of its time.sleep
    rd,                  \* reader -> locals of its predict_anomaly call
    fres,                \* forcer -> result of its last force_retrain call
    sinceAutoStart,      \* history: seconds since a monitor last began a training
                         \* run, COOLDOWN when that many or more, or when none did
    bootBad,             \* history: an artifact was missing or unreadable at startup
    bootTrained,         \* history: load_or_train_model called train_anomaly_model
    lat,                 \* geofencing: latitude of the point under test
    lon,                 \* geofencing: longitude of the point under test
    polygon_coords,      \* argument of the point_in_polygon call under test
    contained,           \* what that call did: "none" before it, then its result
    geofences,           \* rows of geofences.csv: the polygon cell of each zone
    alert                \* what check_geofences did: NoAlert before the call

vars == <<anomaly_model, scaler, scalerN, modelN, model_file, scaler_file,
          last_training_time, last_data_hash, retrain_lock,
          auto_retrain_enabled, monitor_thread, pc, tr, remaining, rd, fres,
          sinceAutoStart, bootBad, bootTrained, lat, lon, polygon_coords,
          contained, geofences, alert>>

globalsML == <<anomaly_model, scaler, scalerN, modelN>>
filesML == <<model_file, scaler_file>>
monitorML == <<auto_retrain_enabled, monitor_thread, remaining>>
geoVars == <<lat, lon, polygon_coords, contained, geofences, alert>>
mlVars == <<globalsML, filesML, last_training_time, last_data_hash,
            retrain_lock, monitorML, pc, tr, rd, fres, sinceAutoStart,
            bootBad, bootTrained>>

\* ---------------------------------------------------------------- helpers
Min(a, b) == IF a < b THEN a ELSE b
Max(a, b) == IF a > b THEN a ELSE b

\* JSON values of geofencing (see the geofencing section)
Vertex(a, b) == [kind |-> "list", xs |-> <<a, b>>]
Coords(items) == [kind |-> "list", items |-> items]
Json(value) == [kind |-> "json", value |-> value]
Unparsable == [kind |-> "unparsable", value |-> Coords(<<>>)]
EmptyCell == [kind |-> "empty", value |-> Coords(<<>>)]
NoPolygon == Coords(<<>>)
NoAlert == [called |-> FALSE, zone |-> 0, raised |-> "none"]

\* tr[w]: the run's objects, the number of rows it read from locations.csv,
\* and how the last run of w ended ("none" before it has)
NoRun == [obj |-> None, rows |-> NoRows, ok |-> "none"]
\* rd[p]: columns of features_df, the objects used so far, the result, and
\* whether the call raised to its caller
NoCall == [n |-> 0, usedS |-> None, usedM |-> None, res |-> "none",
           raised |-> FALSE]

\* threading.Thread.is_alive()
is_alive(t) == pc[t] \notin {"unborn", "exited"}

\* The places that hold a reference to an object, in a fixed order: the two
\* globals, the local of every training run, the objects a predict call used.
RECURSIVE Ascending(_)
Ascending(S) ==
    IF S = {} THEN <<>>
    ELSE LET x == CHOOSE y \in S : \A z \in S : y <= z
         IN  <<x>> \o Ascending(S \ {x})
TrainerSeq == Ascending(Trainers)
ReaderSeq == Ascending(Readers)
RefSeq(s, m, t, r) ==
    <<s, m>>
    \o [i \in 1..Len(TrainerSeq) |-> t[TrainerSeq[i]].obj]
    \o [i \in 1..Len(ReaderSeq) |-> r[ReaderSeq[i]].usedS]
    \o [i \in 1..Len(ReaderSeq) |-> r[ReaderSeq[i]].usedM]
Referenced == {anomaly_model, scaler} \cup {tr[w].obj : w \in Trainers}
                 \cup {rd[p].usedS : p \in Readers} \cup {rd[p].usedM : p \in Readers}
\* a name for the objects of a run that begins
FreshRun == CHOOSE r \in NewRuns : r \notin Referenced

\* the runs of this process that seq refers to, each once, in the order of
\* their first place in seq
RECURSIVE Distinct(_, _)
Distinct(seq, acc) ==
    IF seq = <<>> THEN acc
    ELSE LET x == Head(seq)
         IN  Distinct(Tail(seq),
                      IF x \in NewRuns /\ \A i \in 1..Len(acc) : acc[i] # x
                      THEN Append(acc, x) ELSE acc)

\* The name of a run carries nothing but its identity, so a state is stored
\* with the runs of this process named 3, 4, ... in the order in which
\* RefSeq first refers to them, and with no object nothing refers to.
\* Store takes the next values of the globals, of tr, of rd and of the heap.
Store(s, m, t, r, sN, mN) ==
    \E tt \in {t} : \E rr \in {r} :
    \E seen \in {Distinct(RefSeq(s, m, tt, rr), <<>>)} :
        LET name(x) == IF x \notin NewRuns THEN x
                       ELSE 2 + (CHOOSE i \in 1..Len(seen) : seen[i] = x)
            heap(h) == [n \in NewRuns |->
                           IF n - 2 <= Len(seen) THEN h[seen[n - 2]] ELSE 0]
        IN  /\ scaler' = name(s)
            /\ anomaly_model' = name(m)
            /\ tr' = [w \in Trainers |-> [tt[w] EXCEPT !.obj = name(tt[w].obj)]]
            /\ rd' = [p \in Readers |->
                         [rr[p] EXCEPT !.usedS = name(rr[p].usedS),
                                       !.usedM = name(rr[p].usedM)]]
            /\ scalerN' = heap(sN)
            /\ modelN' = heap(mN)

\* n_features_in_ of the objects of an earlier process, as unpickled
OldFields(r) == BASIC_FIELDS
ScalerFields(r) == IF r \in OldRuns THEN OldFields(r) ELSE scalerN[r]
ModelFields(r) == IF r \in OldRuns THEN OldFields(r) ELSE modelN[r]

\* an extract_enhanced_features that adds the enhanced columns from ten rows on
FeatureBranchFromTen(n) ==
    IF n < MIN_EVENTS THEN "dummy"
    ELSE IF n >= ENHANCED_ABOVE THEN "enhanced" ELSE "basic"

\* extract_enhanced_features: the branch train_anomaly_model takes and the
\* number of columns of the feature frame, from the number of location rows
FeatureBranch(n) ==
    IF n < MIN_EVENTS THEN "dummy"
    ELSE IF n > ENHANCED_ABOVE THEN "enhanced" ELSE "basic"
BranchFields(b) == IF b = "enhanced" THEN ENHANCED_FIELDS ELSE BASIC_FIELDS
Branch(w) == IF tr[w].rows = NoRows THEN "none" ELSE FeatureBranch(tr[w].rows)

\* where train_anomaly_model returns to
AfterTrain(w) ==
    IF w = StartupId THEN "l_start"
    ELSE IF w \in Threads THEN "m_release" ELSE "f_return"

\* the positions inside train_anomaly_model (lines 87-138)
TrainingSteps == {"t_begin", "t_model_new", "t_scaler_fit", "t_model_fit",
                  "t_dump_model", "t_dump_scaler"}
\* w is executing train_anomaly_model
Running(w) == pc[w] \in TrainingSteps

TypeOK ==
    /\ anomaly_model \in Runs \cup {None}
    /\ scaler \in Runs \cup {None}
    /\ scalerN \in [NewRuns -> 0..MaxFields]
    /\ modelN \in [NewRuns -> 0..MaxFields]
    /\ model_file \in OldRuns \cup {Missing, Corrupt, Latest}
    /\ scaler_file \in OldRuns \cup {Missing, Corrupt, Latest, Earlier}
    /\ last_training_time \in {NoTime} \cup 0..COOLDOWN
    /\ last_data_hash \in {NoHash, HashError, CurrentFp, StaleFp}
    /\ retrain_lock \in {Free} \cup Threads \cup Forcers
    /\ auto_retrain_enabled \in BOOLEAN
    /\ monitor_thread \in {None} \cup Threads
    /\ DOMAIN pc = Procs
    /\ DOMAIN tr = Trainers
    /\ remaining \in [Threads -> 0..POLL]
    /\ DOMAIN rd = Readers
    /\ fres \in [Forcers -> {"none", "true", "false"}]
    /\ sinceAutoStart \in 0..COOLDOWN
    /\ bootBad \in BOOLEAN
    /\ bootTrained \in BOOLEAN
    /\ contained \in {"none", "True", "False", "KeyError"}
    /\ alert.called \in BOOLEAN
    /\ alert.zone \in 0..Len(geofences)
    /\ \A r \in NewRuns \ Referenced : scalerN[r] = 0 /\ modelN[r] = 0
    /\ \A r \in Referenced \cap NewRuns : \A q \in 3..r : q \in Referenced

\* ------------------------------------------------------------------- Init
\* no geofencing call is under test
GeoIdle ==
    /\ lat = 0
    /\ lon = 0
    /\ polygon_coords = NoPolygon
    /\ contained = "none"
    /\ geofences = <<>>
    /\ alert = NoAlert

\* <<MODEL_FILE, SCALER_FILE>> as an earlier process can have left them: no
\* file, one file, an unreadable file, the pair of one run, and the model
\* of run 2 with the scaler of run 1 (run 2 failed between lines 130 and 132)
StartupFiles ==
    {<<Missing, Missing>>, <<Missing, 1>>, <<1, Missing>>, <<Corrupt, 1>>,
     <<1, Corrupt>>, <<1, 1>>, <<2, 1>>}

\* Module import (lines 15-21) with the files a previous process left.
Init ==
    /\ anomaly_model = None
    /\ scaler = None
    /\ scalerN = [r \in NewRuns |-> 0]
    /\ modelN = [r \in NewRuns |-> 0]
    /\ \E f \in StartupFiles : model_file = f[1] /\ scaler_file = f[2]
    /\ last_training_time = NoTime
    /\ last_data_hash = NoHash
    /\ retrain_lock = Free
    /\ auto_retrain_enabled = TRUE
    /\ monitor_thread = None
    /\ pc = [p \in Procs |-> IF p = StartupId THEN "l_check"
                             ELSE IF p \in Threads THEN "unborn" ELSE "idle"]
    /\ tr = [w \in Trainers |-> NoRun]
    /\ remaining = [t \in Threads |-> 0]
    /\ rd = [p \in Readers |-> NoCall]
    /\ fres = [f \in Forcers |-> "none"]
    /\ sinceAutoStart = COOLDOWN
    /\ bootBad = (model_file \in {Missing, Corrupt} \/ scaler_file \in {Missing, Corrupt})
    /\ bootTrained = FALSE
    /\ GeoIdle

\* ---------------------------------------------------- train_anomaly_model
\* tr after train_anomaly_model has returned with outcome ok
Ended(w, ok) == [tr EXCEPT ![w] = [obj |-> None, rows |-> NoRows, ok |-> ok]]

\* The except clause of train_anomaly_model (lines 137-138): the error is
\* printed and the function returns normally.
train_except(w) ==
    /\ pc' = [pc EXCEPT ![w] = AfterTrain(w)]
    /\ Store(scaler, anomaly_model, Ended(w, "failed"), rd, scalerN, modelN)

\* lines 92-100 / 111: features_df = extract_enhanced_features(), which
\* reads locations.csv with the rows it has at that moment, and
\* scaler = StandardScaler()
t_begin(w) ==
    /\ pc[w] = "t_begin"
    /\ \E rows \in EventCounts :
          /\ Store(FreshRun, anomaly_model,
                   [tr EXCEPT ![w] = [obj |-> FreshRun,
                                      rows |-> rows,
                                      ok |-> "none"]],
                   rd, scalerN, modelN)
          /\ pc' = [pc EXCEPT ![w] = IF FeatureBranch(rows) = "dummy"
                                     THEN "t_model_new" ELSE "t_scaler_fit"]
    /\ UNCHANGED <<filesML, last_training_time, last_data_hash, retrain_lock,
                   monitorML, fres, sinceAutoStart, bootBad, bootTrained, geoVars>>

\* lines 101-104 / 116-121: anomaly_model = IsolationForest(...)
t_model_new(w) ==
    /\ pc[w] = "t_model_new"
    /\ Store(scaler, tr[w].obj, tr, rd, scalerN, modelN)
    /\ pc' = [pc EXCEPT ![w] = IF Branch(w) = "dummy" THEN "t_scaler_fit"
                               ELSE "t_model_fit"]
    /\ UNCHANGED <<filesML, last_training_time, last_data_hash, retrain_lock,
                   monitorML, fres, sinceAutoStart, bootBad, bootTrained, geoVars>>

\* lines 107 / 112: scaler.fit(dummy_data) / scaler.fit_transform(features_df);
\* fitting the rows read from the CSV can raise (a value that is no number)
t_scaler_fit(w) ==
    /\ pc[w] = "t_scaler_fit"
    /\ \/ /\ scalerN' = [scalerN EXCEPT ![tr[w].obj] = BranchFields(Branch(w))]
          /\ pc' = [pc EXCEPT ![w] = IF Branch(w) = "dummy" THEN "t_model_fit"
                                     ELSE "t_model_new"]
          /\ UNCHANGED <<anomaly_model, scaler, tr, rd, modelN>>
       \/ /\ Branch(w) # "dummy"
          /\ train_except(w)
    /\ UNCHANGED <<filesML, last_training_time, last_data_hash, retrain_lock,
                   monitorML, fres, sinceAutoStart, bootBad, bootTrained, geoVars>>

\* lines 108 / 122: anomaly_model.fit(...)
t_model_fit(w) ==
    /\ pc[w] = "t_model_fit"
    /\ \/ /\ modelN' = [modelN EXCEPT ![tr[w].obj] = BranchFields(Branch(w))]
          /\ pc' = [pc EXCEPT ![w] = "t_dump_model"]
          /\ UNCHANGED <<anomaly_model, scaler, tr, rd, scalerN>>
       \/ /\ Branch(w) # "dummy"
          /\ train_except(w)
    /\ UNCHANGED <<filesML, last_training_time, last_data_hash, retrain_lock,
                   monitorML, fres, sinceAutoStart, bootBad, bootTrained, geoVars>>

\* lines 128-130: open(MODEL_FILE, 'wb') and pickle.dump(anomaly_model, f),
\* or open() raises and the file stays as it was
t_dump_model(w) ==
    /\ pc[w] = "t_dump_model"
    /\ \/ /\ model_file' = Latest
          /\ scaler_file' = IF scaler_file = Latest THEN Earlier ELSE scaler_file
          /\ pc' = [pc EXCEPT ![w] = "t_dump_scaler"]
          /\ UNCHANGED <<globalsML, tr, rd>>
       \/ /\ UNCHANGED filesML
          /\ train_except(w)
    /\ UNCHANGED <<last_training_time, last_data_hash, retrain_lock,
                   monitorML, fres, sinceAutoStart, bootBad, bootTrained, geoVars>>

\* lines 131-135: pickle.dump(scaler, f); last_training_time = datetime.now()
t_dump_scaler(w) ==
    /\ pc[w] = "t_dump_scaler"
    /\ \/ /\ scaler_file' = Latest
          /\ last_training_time' = 0
          /\ pc' = [pc EXCEPT ![w] = AfterTrain(w)]
          /\ Store(scaler, anomaly_model, Ended(w, "ok"), rd, scalerN, modelN)
       \/ /\ UNCHANGED <<scaler_file, last_training_time>>
          /\ train_except(w)
    /\ UNCHANGED <<model_file, last_data_hash, retrain_lock,
                   monitorML, fres, sinceAutoStart, bootBad, bootTrained, geoVars>>

train_anomaly_model(w) ==
    \/ t_begin(w)
    \/ t_model_new(w)
    \/ t_scaler_fit(w)
    \/ t_model_fit(w)
    \/ t_dump_model(w)
    \/ t_dump_scaler(w)

\* ---------------------------------------------------------- should_retrain
\* a cooldown that never ends once a training run has succeeded
CooldownOnlyBeforeFirstRun == last_training_time = NoTime

\* lines 146-149: the cooldown test; TRUE when should_retrain goes on to the
\* fingerprint comparison
CooldownPassed == last_training_time = NoTime \/ last_training_time >= COOLDOWN

\* lines 23-34: what calculate_data_hash can return
calculate_data_hash == {CurrentFp, HashError}

\* line 153: last_data_hash is None or current_hash != last_data_hash
HashDiffers(h) == last_data_hash = NoHash \/ h # last_data_hash

\* -------------------------------------------------- auto_retrain_monitor(t)
\* a loop that never reads auto_retrain_enabled (while True)
m_top_while_true(t) ==
    /\ pc[t] = "m_top"
    /\ IF CooldownPassed
       THEN /\ pc' = [pc EXCEPT ![t] = "m_hash"]
            /\ UNCHANGED remaining
       ELSE /\ pc' = [pc EXCEPT ![t] = "m_sleep"]
            /\ remaining' = [remaining EXCEPT ![t] = POLL]
    /\ UNCHANGED <<globalsML, filesML, last_training_time, last_data_hash,
                   retrain_lock, auto_retrain_enabled, monitor_thread, tr, rd,
                   fres, sinceAutoStart, bootBad, bootTrained, geoVars>>

\* line 169: while auto_retrain_enabled; line 171 into should_retrain,
\* lines 146-149: on False the thread goes to time.sleep(10) of line 176
m_top(t) ==
    /\ pc[t] = "m_top"
    /\ IF ~auto_retrain_enabled
       THEN /\ pc' = [pc EXCEPT ![t] = "exited"]
            /\ UNCHANGED remaining
       ELSE IF CooldownPassed
       THEN /\ pc' = [pc EXCEPT ![t] = "m_hash"]
            /\ UNCHANGED remaining
       ELSE /\ pc' = [pc EXCEPT ![t] = "m_sleep"]
            /\ remaining' = [remaining EXCEPT ![t] = POLL]
    /\ UNCHANGED <<globalsML, filesML, last_training_time, last_data_hash,
                   retrain_lock, auto_retrain_enabled, monitor_thread, tr, rd,
                   fres, sinceAutoStart, bootBad, bootTrained, geoVars>>

\* should_retrain, lines 152-157
m_hash(t) ==
    /\ pc[t] = "m_hash"
    /\ \E h \in calculate_data_hash :
          IF HashDiffers(h)
          THEN /\ last_data_hash' = h
               /\ pc' = [pc EXCEPT ![t] = "m_acquire"]
               /\ UNCHANGED remaining
          ELSE /\ pc' = [pc EXCEPT ![t] = "m_sleep"]
               /\ remaining' = [remaining EXCEPT ![t] = POLL]
               /\ UNCHANGED last_data_hash
    /\ UNCHANGED <<globalsML, filesML, last_training_time, retrain_lock,
                   auto_retrain_enabled, monitor_thread, tr, rd, fres,
                   sinceAutoStart, bootBad, bootTrained, geoVars>>

\* a with block that does not wait for the holder of the lock
LockNeverWaits == TRUE

\* line 172: with retrain_lock -- what the acquire waits for
LockAvailable == retrain_lock = Free

\* lines 172-174: with retrain_lock: ... train_anomaly_model()
m_acquire(t) ==
    /\ pc[t] = "m_acquire"
    /\ LockAvailable
    /\ retrain_lock' = t
    /\ sinceAutoStart' = 0
    /\ pc' = [pc EXCEPT ![t] = "t_begin"]
    /\ UNCHANGED <<globalsML, filesML, last_training_time, last_data_hash,
                   monitorML, tr, rd, fres, bootBad, bootTrained, geoVars>>

\* a loop that ends when the training run of the cycle has failed
m_release_exits_on_failure(t) ==
    /\ pc[t] = "m_release"
    /\ retrain_lock' = Free
    /\ tr' = [tr EXCEPT ![t] = NoRun]
    /\ IF tr[t].ok = "failed"
       THEN /\ pc' = [pc EXCEPT ![t] = "exited"]
            /\ UNCHANGED remaining
       ELSE /\ remaining' = [remaining EXCEPT ![t] = POLL]
            /\ pc' = [pc EXCEPT ![t] = "m_sleep"]
    /\ UNCHANGED <<globalsML, filesML, last_training_time, last_data_hash,
                   auto_retrain_enabled, monitor_thread, rd, fres,
                   sinceAutoStart, bootBad, bootTrained, geoVars>>

\* end of the with block (line 174) and time.sleep(10) of line 176
m_release(t) ==
    /\ pc[t] = "m_release"
    /\ retrain_lock' = Free
    /\ tr' = [tr EXCEPT ![t] = NoRun]
    /\ remaining' = [remaining EXCEPT ![t] = POLL]
    /\ pc' = [pc EXCEPT ![t] = "m_sleep"]
    /\ UNCHANGED <<globalsML, filesML, last_training_time, last_data_hash,
                   auto_retrain_enabled, monitor_thread, rd, fres,
                   sinceAutoStart, bootBad, bootTrained, geoVars>>

\* time.sleep(10) returns, back to line 169
m_wake(t) ==
    /\ pc[t] = "m_sleep"
    /\ remaining[t] = 0
    /\ pc' = [pc EXCEPT ![t] = "m_top"]
    /\ UNCHANGED <<globalsML, filesML, last_training_time, last_data_hash,
                   retrain_lock, monitorML, tr, rd, fres, sinceAutoStart,
                   bootBad, bootTrained, geoVars>>

auto_retrain_monitor(t) ==
    \/ m_top(t)
    \/ m_hash(t)
    \/ m_acquire(t)
    \/ m_release(t)
    \/ m_wake(t)
    \/ train_anomaly_model(t)

\* ------------------------------------------- start / stop of the monitor
\* a start that tests the flag instead of the thread
NoEnabledMonitor == monitor_thread = None \/ ~auto_retrain_enabled

\* line 186: monitor_thread is None or not monitor_thread.is_alive()
NoLiveMonitor == monitor_thread = None \/ ~is_alive(monitor_thread)

\* the Thread object line 188 creates: one that is not running
NewThread == CHOOSE t \in Threads : ~is_alive(t)

\* start_auto_retrain_monitor, lines 186-190, and the return to the caller
\* (pc[StartupId] is "done" already when the caller is not load_or_train_model)
start_auto_retrain_monitor ==
    IF NoLiveMonitor
    THEN /\ \E t \in Threads : ~is_alive(t)
         /\ auto_retrain_enabled' = TRUE
         /\ monitor_thread' = NewThread
         /\ pc' = [pc EXCEPT ![NewThread] = "m_top",
                             ![StartupId] = "done"]
         /\ tr' = [tr EXCEPT ![NewThread] = NoRun, ![StartupId] = NoRun]
         /\ remaining' = [remaining EXCEPT ![NewThread] = 0]
    ELSE /\ pc' = [pc EXCEPT ![StartupId] = "done"]
         /\ tr' = [tr EXCEPT ![StartupId] = NoRun]
         /\ UNCHANGED <<auto_retrain_enabled, monitor_thread, remaining>>

\* stop_auto_retrain_monitor, line 195
stop_auto_retrain_monitor ==
    /\ auto_retrain_enabled' = FALSE

\* A caller of the module (main.py serves requests once lifespan's startup
\* has run load_or_train_model) starts the monitor.
Start ==
    /\ pc[StartupId] = "done"
    /\ start_auto_retrain_monitor
    /\ UNCHANGED <<globalsML, filesML, last_training_time, last_data_hash,
                   retrain_lock, rd, fres, sinceAutoStart, bootBad, bootTrained, geoVars>>

\* main.py line 29 (shutdown) or any caller of the module stops the monitor.
Stop ==
    /\ pc[StartupId] = "done"
    /\ stop_auto_retrain_monitor
    /\ UNCHANGED <<globalsML, filesML, last_training_time, last_data_hash,
                   retrain_lock, monitor_thread, pc, tr, remaining, rd, fres,
                   sinceAutoStart, bootBad, bootTrained, geoVars>>

\* ----------------------------------------------------- load_or_train_model
\* a load_or_train_model that starts the monitor thread before it loads
l_check_monitor_first ==
    /\ pc[StartupId] = "l_check"
    /\ auto_retrain_enabled' = TRUE
    /\ monitor_thread' = NewThread
    /\ remaining' = [remaining EXCEPT ![NewThread] = 0]
    /\ IF model_file # Missing /\ scaler_file # Missing
       THEN /\ pc' = [pc EXCEPT ![StartupId] = "l_load_model",
                                ![NewThread] = "m_top"]
            /\ UNCHANGED bootTrained
       ELSE /\ pc' = [pc EXCEPT ![StartupId] = "t_begin",
                                ![NewThread] = "m_top"]
            /\ bootTrained' = TRUE
    /\ UNCHANGED <<globalsML, filesML, last_training_time, last_data_hash,
                   retrain_lock, tr, rd, fres, sinceAutoStart, bootBad, geoVars>>

\* line 203: os.path.exists(MODEL_FILE) and os.path.exists(SCALER_FILE);
\* the else branch calls train_anomaly_model (line 211)
l_check ==
    /\ pc[StartupId] = "l_check"
    /\ IF model_file # Missing /\ scaler_file # Missing
       THEN /\ pc' = [pc EXCEPT ![StartupId] = "l_load_model"]
            /\ UNCHANGED bootTrained
       ELSE /\ pc' = [pc EXCEPT ![StartupId] = "t_begin"]
            /\ bootTrained' = TRUE
    /\ UNCHANGED <<globalsML, filesML, last_training_time, last_data_hash,
                   retrain_lock, monitorML, tr, rd, fres, sinceAutoStart,
                   bootBad, geoVars>>

\* lines 204-205: anomaly_model = pickle.load(f); an unreadable file raises
\* into the except clause, which calls train_anomaly_model (line 218)
l_load_model ==
    /\ pc[StartupId] = "l_load_model"
    /\ IF model_file = Corrupt
       THEN /\ pc' = [pc EXCEPT ![StartupId] = "t_begin"]
            /\ bootTrained' = TRUE
            /\ UNCHANGED anomaly_model
       ELSE /\ anomaly_model' = model_file
            /\ pc' = [pc EXCEPT ![StartupId] = "l_load_scaler"]
            /\ UNCHANGED bootTrained
    /\ UNCHANGED <<scaler, scalerN, modelN, filesML, last_training_time,
                   last_data_hash, retrain_lock, monitorML, tr, rd, fres,
                   sinceAutoStart, bootBad, geoVars>>

\* lines 206-207: scaler = pickle.load(f)
l_load_scaler ==
    /\ pc[StartupId] = "l_load_scaler"
    /\ IF scaler_file = Corrupt
       THEN /\ pc' = [pc EXCEPT ![StartupId] = "t_begin"]
            /\ bootTrained' = TRUE
            /\ UNCHANGED scaler
       ELSE /\ scaler' = scaler_file
            /\ pc' = [pc EXCEPT ![StartupId] = "l_start"]
            /\ UNCHANGED bootTrained
    /\ UNCHANGED <<anomaly_model, scalerN, modelN, filesML, last_training_time,
                   last_data_hash, retrain_lock, monitorML, tr, rd, fres,
                   sinceAutoStart, bootBad, geoVars>>

\* lines 214 / 219: start_auto_retrain_monitor(), then return
l_start ==
    /\ pc[StartupId] = "l_start"
    /\ start_auto_retrain_monitor
    /\ UNCHANGED <<globalsML, filesML, last_training_time, last_data_hash,
                   retrain_lock, rd, fres, sinceAutoStart, bootBad, bootTrained, geoVars>>

load_or_train_model ==
    \/ l_check
    \/ l_load_model
    \/ l_load_scaler
    \/ l_start
    \/ train_anomaly_model(StartupId)

\* ------------------------------------------------------------ force_retrain
\* main.py line 282: a request handler calls force_retrain()
f_call(f) ==
    /\ pc[StartupId] = "done"
    /\ pc[f] = "idle"
    /\ pc' = [pc EXCEPT ![f] = "f_acquire"]
    /\ fres' = [fres EXCEPT ![f] = "none"]
    /\ UNCHANGED <<globalsML, filesML, last_training_time, last_data_hash,
                   retrain_lock, monitorML, tr, rd, sinceAutoStart,
                   bootBad, bootTrained, geoVars>>

\* lines 226-229: with retrain_lock: last_data_hash = None; train_anomaly_model()
f_acquire(f) ==
    /\ pc[f] = "f_acquire"
    /\ LockAvailable
    /\ retrain_lock' = f
    /\ last_data_hash' = NoHash
    /\ pc' = [pc EXCEPT ![f] = "t_begin"]
    /\ UNCHANGED <<globalsML, filesML, last_training_time, monitorML, tr, rd,
                   fres, sinceAutoStart, bootBad, bootTrained, geoVars>>

\* line 230: return True, whatever the outcome ok of the training run was
\* (train_anomaly_model returns None on success and on failure alike)
ForceResult(ok) == "true"

\* a with block that gives the lock back only after a run that succeeded
f_return_keeps_lock_on_failure(f) ==
    /\ pc[f] = "f_return"
    /\ retrain_lock' = IF tr[f].ok = "ok" THEN Free ELSE retrain_lock
    /\ fres' = [fres EXCEPT ![f] = ForceResult(tr[f].ok)]
    /\ pc' = [pc EXCEPT ![f] = "idle"]
    /\ tr' = [tr EXCEPT ![f] = NoRun]
    /\ UNCHANGED <<globalsML, filesML, last_training_time, last_data_hash,
                   monitorML, rd, sinceAutoStart, bootBad, bootTrained, geoVars>>

\* line 230 and the end of the with block
f_return(f) ==
    /\ pc[f] = "f_return"
    /\ retrain_lock' = Free
    /\ fres' = [fres EXCEPT ![f] = ForceResult(tr[f].ok)]
    /\ pc' = [pc EXCEPT ![f] = "idle"]
    /\ tr' = [tr EXCEPT ![f] = NoRun]
    /\ UNCHANGED <<globalsML, filesML, last_training_time, last_data_hash,
                   monitorML, rd, sinceAutoStart, bootBad, bootTrained, geoVars>>

force_retrain(f) ==
    \/ f_call(f)
    \/ f_acquire(f)
    \/ f_return(f)
    \/ train_anomaly_model(f)

\* ---------------------------------------------------------- predict_anomaly
\* lines 241 / 306: the neutral default
Neutral == "neutral"

\* a predict_anomaly without the except clause: the error reaches the caller
predict_reraise(r) == [r EXCEPT !.res = "none", !.raised = TRUE,
                                !.usedS = None, !.usedM = None]

\* lines 304-306: except Exception -> the neutral default is returned
predict_except(r) == [r EXCEPT !.res = Neutral, !.raised = FALSE,
                               !.usedS = None, !.usedM = None]

\* lines 246-248: n_features = scaler.n_features_in_, 2 when the attribute
\* is missing (a scaler that is not fitted)
NFeatures(s) == IF ScalerFields(s) = 0 THEN BASIC_FIELDS ELSE ScalerFields(s)

\* a feature frame that is cut to n columns but never padded
FeatureColumnsNoPad(n) ==
    IF n = BASIC_FIELDS
    THEN <<"speed_kmh", "in_geofence">>
    ELSE LET five == <<"speed_kmh", "in_geofence", "location_risk",
                       "speed_anomaly", "hour">>
         IN  SubSeq(five, 1, Min(n, Len(five)))

\* lines 250-288: the columns of features_df for n_features = n
FeatureColumns(n) ==
    IF n = BASIC_FIELDS
    THEN <<"speed_kmh", "in_geofence">>
    ELSE LET five == <<"speed_kmh", "in_geofence", "location_risk",
                       "speed_anomaly", "hour">>
         IN  IF Len(five) < n
             THEN five \o [i \in 1..(n - Len(five)) |-> "feature"]
             ELSE SubSeq(five, 1, n)

\* a predict_anomaly that takes retrain_lock before it reads the globals
PredictWaitsForLock == retrain_lock = Free

\* what predict_anomaly waits for before it runs: nothing
PredictMayRun == TRUE

\* main.py lines 21-30, 82, 321: predict_anomaly is called by the request
\* handlers, which are served once the lifespan start-up has run.
\* line 240: either global is None -> the neutral default;
\* lines 244-288: read scaler.n_features_in_ and build features_df
p_call(p) ==
    /\ pc[StartupId] = "done"
    /\ pc[p] = "idle"
    /\ PredictMayRun
    /\ LET r == NoCall
       IN  IF anomaly_model = None \/ scaler = None
           THEN /\ rd' = [rd EXCEPT ![p] = [r EXCEPT !.res = Neutral]]
                /\ pc' = [pc EXCEPT ![p] = "p_done"]
           ELSE /\ rd' = [rd EXCEPT ![p] =
                             [r EXCEPT !.n = Len(FeatureColumns(NFeatures(scaler)))]]
                /\ pc' = [pc EXCEPT ![p] = "p_transform"]
    /\ UNCHANGED <<globalsML, filesML, last_training_time, last_data_hash,
                   retrain_lock, monitorML, tr, fres, sinceAutoStart,
                   bootBad, bootTrained, geoVars>>

\* a predict_anomaly that drops the active scaler when transform raises
p_transform_drops_scaler(p) ==
    /\ pc[p] = "p_transform"
    /\ IF ScalerFields(scaler) = rd[p].n
       THEN /\ Store(scaler, anomaly_model, tr, [rd EXCEPT ![p].usedS = scaler],
                     scalerN, modelN)
            /\ pc' = [pc EXCEPT ![p] = "p_predict"]
       ELSE /\ Store(None, anomaly_model, tr,
                     [rd EXCEPT ![p] = predict_except(rd[p])], scalerN, modelN)
            /\ pc' = [pc EXCEPT ![p] = "p_done"]
    /\ UNCHANGED <<filesML, last_training_time, last_data_hash, retrain_lock,
                   monitorML, fres, sinceAutoStart, bootBad, bootTrained, geoVars>>

\* line 291: scaler.transform(features_df) raises on a scaler that is not
\* fitted or that was fitted on another number of columns
p_transform(p) ==
    /\ pc[p] = "p_transform"
    /\ IF ScalerFields(scaler) = rd[p].n
       THEN /\ Store(scaler, anomaly_model, tr, [rd EXCEPT ![p].usedS = scaler],
                     scalerN, modelN)
            /\ pc' = [pc EXCEPT ![p] = "p_predict"]
       ELSE /\ Store(scaler, anomaly_model, tr,
                     [rd EXCEPT ![p] = predict_except(rd[p])], scalerN, modelN)
            /\ pc' = [pc EXCEPT ![p] = "p_done"]
    /\ UNCHANGED <<filesML, last_training_time, last_data_hash, retrain_lock,
                   monitorML, fres, sinceAutoStart, bootBad, bootTrained, geoVars>>

\* line 292: anomaly_model.predict(features_scaled)
p_predict(p) ==
    /\ pc[p] = "p_predict"
    /\ IF ModelFields(anomaly_model) = rd[p].n
       THEN /\ Store(scaler, anomaly_model, tr,
                     [rd EXCEPT ![p].usedM = anomaly_model], scalerN, modelN)
            /\ pc' = [pc EXCEPT ![p] = "p_decision"]
       ELSE /\ Store(scaler, anomaly_model, tr,
                     [rd EXCEPT ![p] = predict_except(rd[p])], scalerN, modelN)
            /\ pc' = [pc EXCEPT ![p] = "p_done"]
    /\ UNCHANGED <<filesML, last_training_time, last_data_hash, retrain_lock,
                   monitorML, fres, sinceAutoStart, bootBad, bootTrained, geoVars>>

\* lines 293-302: anomaly_model.decision_function(features_scaled) and the
\* result built from it
p_decision(p) ==
    /\ pc[p] = "p_decision"
    /\ IF ModelFields(anomaly_model) = rd[p].n
       THEN Store(scaler, anomaly_model, tr, [rd EXCEPT ![p].res = "score"],
                  scalerN, modelN)
       ELSE Store(scaler, anomaly_model, tr,
                  [rd EXCEPT ![p] = predict_except(rd[p])], scalerN, modelN)
    /\ pc' = [pc EXCEPT ![p] = "p_done"]
    /\ UNCHANGED <<filesML, last_training_time, last_data_hash, retrain_lock,
                   monitorML, fres, sinceAutoStart, bootBad, bootTrained, geoVars>>

\* the caller has the result; the call is over
p_return(p) ==
    /\ pc[p] = "p_done"
    /\ Store(scaler, anomaly_model, tr, [rd EXCEPT ![p] = NoCall], scalerN, modelN)
    /\ pc' = [pc EXCEPT ![p] = "idle"]
    /\ UNCHANGED <<filesML, last_training_time, last_data_hash, retrain_lock,
                   monitorML, fres, sinceAutoStart, bootBad, bootTrained, geoVars>>

predict_anomaly(p) ==
    \/ p_call(p)
    \/ p_transform(p)
    \/ p_predict(p)
    \/ p_decision(p)
    \/ p_return(p)

\* ------------------------------------------------------------ environment
\* seconds pass: the stored instants grow older, sleeps grow shorter
Age(x) == IF x = NoTime THEN NoTime ELSE Min(x + TickStep, COOLDOWN)

Tick ==
    /\ last_training_time' = Age(last_training_time)
    /\ sinceAutoStart' = Age(sinceAutoStart)
    /\ remaining' = [t \in Threads |-> Max(remaining[t] - TickStep, 0)]
    /\ UNCHANGED <<globalsML, filesML, last_data_hash, retrain_lock,
                   auto_retrain_enabled, monitor_thread, pc, tr, rd, fres,
                   bootBad, bootTrained, geoVars>>

\* a request handler of main.py writes one of the CSV files (append_to_csv,
\* update_csv_row): the hash of the files is one it never was before, so a
\* stored hash of the files is now the hash of an earlier state
DataChange ==
    /\ last_data_hash = CurrentFp
    /\ last_data_hash' = StaleFp
    /\ UNCHANGED <<globalsML, filesML, last_training_time,
                   retrain_lock, monitorML, pc, tr, rd, fres, sinceAutoStart,
                   bootBad, bootTrained, geoVars>>

\* ------------------------------------------------------------- geofencing
\* src/src/geofencing.py.  A coordinate is an integer, or Infinity for the
\* float json.loads returns for the text Infinity.  An entry of a polygon
\* list is a JSON value: an array of numbers xs ("list"), an array of
\* strings as long as xs ("strings"), a bare number ("number") or an object
\* with the keys "lat" and "lon" ("object").  polygon_coords is a JSON array
\* of such entries ("list"), a bare number or null.  A cell of the polygon
\* column is text json.loads accepts ("json", with the value it yields), text
\* it rejects ("unparsable") or the float pandas yields for an empty cell
\* ("empty").

\* the exception classes shapely's Polygon() raises for coordinates that
\* are not numbers
ConversionErrors == {"TypeError", "ValueError"}

\* (b - a) x (c - a)
Cross(a, b, c) == (b[1] - a[1]) * (c[2] - a[2]) - (b[2] - a[2]) * (c[1] - a[1])
Dot(a, b, c) == (b[1] - a[1]) * (c[1] - a[1]) + (b[2] - a[2]) * (c[2] - a[2])
Sign(n) == IF n > 0 THEN 1 ELSE IF n < 0 THEN -1 ELSE 0

\* p lies on the closed segment a b
OnSegment(p, a, b) ==
    /\ Cross(a, b, p) = 0
    /\ Min(a[1], b[1]) <= p[1] /\ p[1] <= Max(a[1], b[1])
    /\ Min(a[2], b[2]) <= p[2] /\ p[2] <= Max(a[2], b[2])

\* the closed segments a b and c d have a point in common
SegmentsMeet(a, b, c, d) ==
    \/ /\ Sign(Cross(a, b, c)) * Sign(Cross(a, b, d)) < 0
       /\ Sign(Cross(c, d, a)) * Sign(Cross(c, d, b)) < 0
    \/ OnSegment(c, a, b) \/ OnSegment(d, a, b)
    \/ OnSegment(a, c, d) \/ OnSegment(b, c, d)

\* the ring of a shapely Polygon built from the points P: closed from the
\* last point to the first, with repeated consecutive points counted once
Ring(P) ==
    LET n == Len(P)
        prev(i) == IF i = 1 THEN n ELSE i - 1
        keep == Ascending({i \in 1..n : P[i] # P[prev(i)]})
    IN  [k \in 1..Len(keep) |-> P[keep[k]]]

\* Polygon.is_valid: finite coordinates and a simple ring that encloses an
\* area: two edges that follow each other share their common end only, two
\* others share nothing
is_valid(P) ==
    /\ \A i \in 1..Len(P) : P[i][1] # Infinity /\ P[i][2] # Infinity
    /\ \E R \in {Ring(P)} :
        LET n == Len(R)
            nxt(i) == (i % n) + 1
            follows(i, j) == nxt(i) = j
            folded(i, j) == /\ Cross(R[j], R[i], R[nxt(j)]) = 0
                            /\ Dot(R[j], R[i], R[nxt(j)]) > 0
        IN  /\ n >= 3
            /\ \A i \in 1..n : \A j \in (i + 1)..n :
                   IF follows(i, j) THEN ~folded(i, j)
                   ELSE IF follows(j, i) THEN ~folded(j, i)
                   ELSE ~SegmentsMeet(R[i], R[nxt(i)], R[j], R[nxt(j)])

\* Polygon.contains(Point): the point is in the interior of the polygon,
\* not on its boundary; the half-line from the point towards larger x
\* crosses the ring an odd number of times
contains(P, pt) ==
    LET n == Len(P)
        nxt(i) == (i % n) + 1
        crosses(a, b) ==
            /\ (a[2] > pt[2]) # (b[2] > pt[2])
            /\ IF b[2] > a[2]
               THEN (pt[1] - a[1]) * (b[2] - a[2]) < (pt[2] - a[2]) * (b[1] - a[1])
               ELSE (pt[1] - a[1]) * (b[2] - a[2]) > (pt[2] - a[2]) * (b[1] - a[1])
    IN  /\ \A i \in 1..n : ~OnSegment(pt, P[i], P[nxt(i)])
        /\ Cardinality({i \in 1..n : crosses(P[i], P[nxt(i)])}) % 2 = 1

\* a point_in_polygon that hands the pairs to Polygon() as they are stored
polygon_points_unswapped(items) == [i \in 1..Len(items) |-> items[i].xs]

\* lines 18-26: polygon_points, (lat, lon) pairs turned into (x, y) = (lon, lat)
polygon_points(items) ==
    [i \in 1..Len(items) |-> <<items[i].xs[2], items[i].xs[1]>>]

\* lines 14-16: fewer than three entries
TooFew(items) == Len(items) < 3

\* lines 20-26: what the for loop over the entries does from entry i on:
\* "ok" when every entry gave a pair, "False" at an entry with fewer than two
\* coordinates, the exception of len(coord) or coord[1] otherwise
RECURSIVE collect(_, _)
collect(items, i) ==
    IF i > Len(items) THEN "ok"
    ELSE IF items[i].kind = "number" THEN "TypeError"
    ELSE IF Len(items[i].xs) < 2 THEN "False"
    ELSE IF items[i].kind = "object" THEN "KeyError"
    ELSE collect(items, i + 1)

\* lines 28-29: Polygon(polygon_points), is_valid and contains; e is what
\* Polygon() raises for coordinates that are not numbers
polygon_test(la, lo, items, e) ==
    IF \E i \in 1..Len(items) : items[i].kind = "strings" THEN e
    ELSE LET P == polygon_points(items)
         IN  IF is_valid(P) /\ contains(P, <<lo, la>>) THEN "True" ELSE "False"

\* a try block that counts the entries only after the loop over them
point_in_polygon_try_counts_late(la, lo, coords, e) ==
    IF coords.kind # "list" THEN "TypeError"
    ELSE IF collect(coords.items, 1) # "ok" THEN collect(coords.items, 1)
    ELSE IF TooFew(coords.items) THEN "False"
    ELSE polygon_test(la, lo, coords.items, e)

\* lines 10-29: the try block of point_in_polygon
point_in_polygon_try(la, lo, coords, e) ==
    IF coords.kind # "list" THEN "TypeError"
    ELSE IF TooFew(coords.items) THEN "False"
    ELSE IF collect(coords.items, 1) # "ok" THEN collect(coords.items, 1)
    ELSE polygon_test(la, lo, coords.items, e)

\* lines 30-32: except (IndexError, TypeError, ValueError)
PipCaught == {"IndexError", "TypeError", "ValueError"}

\* point_in_polygon (lines 8-32): "True", "False", or the exception that
\* leaves it
point_in_polygon(la, lo, coords, e) ==
    LET r == point_in_polygon_try(la, lo, coords, e)
    IN  IF r \in PipCaught THEN "False" ELSE r

\* line 40: json.loads(geofence['polygon'])
json_loads(cell) ==
    IF cell.kind = "unparsable" THEN "JSONDecodeError"
    ELSE IF cell.kind = "empty" THEN "TypeError"
    ELSE "ok"

\* lines 39-47: the try block of one iteration
zone_try(la, lo, cell, e) ==
    IF json_loads(cell) # "ok" THEN json_loads(cell)
    ELSE point_in_polygon(la, lo, cell.value, e)

\* an except clause of check_geofences without KeyError
GeoCaughtNoKeyError == {"JSONDecodeError", "TypeError"}

\* lines 47-48: except (json.JSONDecodeError, KeyError, TypeError)
GeoCaught == {"JSONDecodeError", "KeyError", "TypeError"}

\* a loop that goes through the rows from the last to the first
RECURSIVE scan_backwards(_, _, _, _, _)
scan_backwards(la, lo, rows, i, e) ==
    LET j == Len(rows) + 1 - i
        r == IF i > Len(rows) THEN "none" ELSE zone_try(la, lo, rows[j], e)
    IN  IF i > Len(rows) THEN [called |-> TRUE, zone |-> 0, raised |-> "none"]
        ELSE IF r = "True" THEN [called |-> TRUE, zone |-> j, raised |-> "none"]
        ELSE IF r = "False" \/ r \in GeoCaught THEN scan_backwards(la, lo, rows, i + 1, e)
        ELSE [called |-> TRUE, zone |-> 0, raised |-> r]

\* lines 38-50: the loop over geofences_df from row i on: the first row
\* whose polygon contains the point is returned, a row whose try block
\* raised a caught exception is printed and passed over, and None (zone 0)
\* is returned after the last row
RECURSIVE scan(_, _, _, _, _)
scan(la, lo, rows, i, e) ==
    LET r == IF i > Len(rows) THEN "none" ELSE zone_try(la, lo, rows[i], e)
    IN  IF i > Len(rows) THEN [called |-> TRUE, zone |-> 0, raised |-> "none"]
        ELSE IF r = "True" THEN [called |-> TRUE, zone |-> i, raised |-> "none"]
        ELSE IF r = "False" \/ r \in GeoCaught THEN scan(la, lo, rows, i + 1, e)
        ELSE [called |-> TRUE, zone |-> 0, raised |-> r]

\* point_in_polygon called with the inputs of this state
call_point_in_polygon ==
    /\ contained = "none"
    /\ \E e \in ConversionErrors :
           contained' = point_in_polygon(lat, lon, polygon_coords, e)
    /\ UNCHANGED <<mlVars, lat, lon, polygon_coords, geofences, alert>>

\* check_geofences (lines 34-50) called with the point and the zone file of
\* this state; read_csv_safe yields the rows, none for a file it cannot read
check_geofences ==
    /\ ~alert.called
    /\ \E e \in ConversionErrors : alert' = scan(lat, lon, geofences, 1, e)
    /\ UNCHANGED <<mlVars, lat, lon, polygon_coords, contained, geofences>>

\* ------------------------------------------------------------------- Next
\* the start-up, the monitor and its callers, the forced retrains, the clock
\* and the writers of the data
Retraining ==
    \/ load_or_train_model
    \/ \E t \in Threads : auto_retrain_monitor(t)
    \/ Start
    \/ Stop
    \/ \E f \in Forcers : force_retrain(f)
    \/ Tick
    \/ DataChange

Next ==
    \/ Retraining
    \/ \E p \in Readers : predict_anomaly(p)
    \/ call_point_in_polygon
    \/ check_geofences

Spec == Init /\ [][Next]_vars

\* The module without the request handlers that call predict_anomaly.
SpecRetrain == Init /\ [][Retraining]_vars

\* The request handlers that call predict_anomaly beside the start-up and one
\* monitor thread that is never stopped.
Serving ==
    \/ load_or_train_model
    \/ \E t \in Threads : auto_retrain_monitor(t)
    \/ \E p \in Readers : predict_anomaly(p)
    \/ Tick
    \/ DataChange

SpecServe == Init /\ [][Serving]_vars

\* The monitor and its callers alone, with the scheduling the threads get:
\* a thread that can take a step takes one (the interpreter switches between
\* the threads), and the clock advances.
Scheduling ==
    \/ load_or_train_model
    \/ \E t \in Threads : auto_retrain_monitor(t)
    \/ Start
    \/ Stop
    \/ Tick
    \/ DataChange

SpecLive ==
    /\ Init
    /\ [][Scheduling]_vars
    /\ \A t \in Threads : WF_vars(auto_retrain_monitor(t))
    /\ WF_vars(Tick)

\* The process as load_or_train_model leaves it when it has loaded the pair
\* of run 1 from disk (lines 203-214): nothing trained yet, the monitor
\* thread started.
InitStarted ==
    /\ anomaly_model = 1
    /\ scaler = 1
    /\ scalerN = [r \in NewRuns |-> 0]
    /\ modelN = [r \in NewRuns |-> 0]
    /\ model_file = 1
    /\ scaler_file = 1
    /\ last_training_time = NoTime
    /\ last_data_hash = NoHash
    /\ retrain_lock = Free
    /\ auto_retrain_enabled = TRUE
    /\ monitor_thread = 1
    /\ pc = [p \in Procs |-> IF p = StartupId THEN "done"
                             ELSE IF p = 1 THEN "m_top"
                             ELSE IF p \in Threads THEN "unborn" ELSE "idle"]
    /\ tr = [w \in Trainers |-> NoRun]
    /\ remaining = [t \in Threads |-> 0]
    /\ rd = [p \in Readers |-> NoCall]
    /\ fres = [f \in Forcers |-> "none"]
    /\ sinceAutoStart = COOLDOWN
    /\ bootBad = FALSE
    /\ bootTrained = FALSE
    /\ GeoIdle

\* The monitor and the callers of force_retrain, with the scheduling the
\* threads get: a thread that can go on goes on, and a thread blocked in
\* retrain_lock.acquire() gets the lock at one of the moments it is free
\* (nobody calls Start or Stop; the callers call when they like).
Forcing ==
    \/ \E t \in Threads : auto_retrain_monitor(t)
    \/ \E f \in Forcers : force_retrain(f)
    \/ Tick
    \/ DataChange

SpecForce ==
    /\ InitStarted
    /\ [][Forcing]_vars
    /\ \A t \in Threads : WF_vars(auto_retrain_monitor(t))
    /\ \A f \in Forcers : WF_vars(train_anomaly_model(f) \/ f_return(f))
    /\ \A f \in Forcers : SF_vars(f_acquire(f))

\* predict_anomaly alone, as a function of the scaler and model it finds: the
\* process has started, no monitor runs, and the pair that was unpickled from
\* models/ declares any number of fields (joblib.load accepts whatever object
\* the files hold, lines 206-207).
InitFields ==
    /\ \E n \in 1..MaxFields, k \in 1..MaxFields :
        /\ scalerN = [r \in NewRuns |-> IF r = 3 THEN n ELSE 0]
        /\ modelN = [r \in NewRuns |-> IF r = 4 THEN k ELSE 0]
    /\ scaler = 3
    /\ anomaly_model = 4
    /\ model_file = 1
    /\ scaler_file = 1
    /\ last_training_time = NoTime
    /\ last_data_hash = NoHash
    /\ retrain_lock = Free
    /\ auto_retrain_enabled = FALSE
    /\ monitor_thread = None
    /\ pc = [p \in Procs |-> IF p = StartupId THEN "done"
                             ELSE IF p \in Threads THEN "unborn" ELSE "idle"]
    /\ tr = [w \in Trainers |-> NoRun]
    /\ remaining = [t \in Threads |-> 0]
    /\ rd = [p \in Readers |-> NoCall]
    /\ fres = [f \in Forcers |-> "none"]
    /\ sinceAutoStart = 0
    /\ bootBad = FALSE
    /\ bootTrained = FALSE
    /\ GeoIdle

Predicting == \E p \in Readers : predict_anomaly(p)

SpecFields == InitFields /\ [][Predicting]_vars

\* The geofencing functions do not touch the state of ml_engine.py; they are
\* run beside a process that has not started yet.
MLIdle ==
    /\ anomaly_model = None
    /\ scaler = None
    /\ scalerN = [r \in NewRuns |-> 0]
    /\ modelN = [r \in NewRuns |-> 0]
    /\ model_file = 1
    /\ scaler_file = 1
    /\ last_training_time = NoTime
    /\ last_data_hash = NoHash
    /\ retrain_lock = Free
    /\ auto_retrain_enabled = TRUE
    /\ monitor_thread = None
    /\ pc = [p \in Procs |-> IF p = StartupId THEN "l_check"
                             ELSE IF p \in Threads THEN "unborn" ELSE "idle"]
    /\ tr = [w \in Trainers |-> NoRun]
    /\ remaining = [t \in Threads |-> 0]
    /\ rd = [p \in Readers |-> NoCall]
    /\ fres = [f \in Forcers |-> "none"]
    /\ sinceAutoStart = COOLDOWN
    /\ bootBad = FALSE
    /\ bootTrained = FALSE

\* vertices on the even grid points, points on every grid point and one
\* step beyond the largest vertex
VertexCoords == {c \in 0..GridMax : c % 2 = 0}
PointCoords == 0..(GridMax + 1)
GridVertices == {Vertex(a, b) : a \in VertexCoords, b \in VertexCoords}

\* entries of a polygon list that are not a pair of finite numbers
MalformedEntries ==
    {[kind |-> "number", xs |-> <<0>>], [kind |-> "list", xs |-> <<0>>],
     [kind |-> "strings", xs |-> <<0, 0>>], [kind |-> "object", xs |-> <<0, 0>>],
     Vertex(Infinity, 0)}

\* every list of 3..MaxVertices grid vertices
GridPolygons ==
    {Coords(P) : P \in UNION {[1..n -> GridVertices] : n \in 3..MaxVertices}}

\* every list of fewer than three entries, well-formed or not
ShortPolygons ==
    {Coords(P) : P \in UNION {[1..n -> GridVertices \cup MalformedEntries] : n \in 0..2}}

\* point_in_polygon as a function of its arguments
InitPolygon ==
    /\ MLIdle
    /\ lat \in PointCoords
    /\ lon \in PointCoords
    /\ polygon_coords \in GridPolygons \cup ShortPolygons
    /\ contained = "none"
    /\ geofences = <<>>
    /\ alert = NoAlert

SpecPolygon == InitPolygon /\ [][call_point_in_polygon]_vars

\* polygon cells of geofences.csv: three zones of one area each, a zone
\* whose ring crosses itself, and the malformed ones
SquareA == Json(Coords(<<Vertex(0, 0), Vertex(0, 4), Vertex(4, 4), Vertex(4, 0)>>))
SquareB == Json(Coords(<<Vertex(0, 0), Vertex(0, 2), Vertex(2, 2), Vertex(2, 0)>>))
StripC == Json(Coords(<<Vertex(2, 0), Vertex(2, 4), Vertex(4, 4), Vertex(4, 0)>>))
Bowtie == Json(Coords(<<Vertex(0, 0), Vertex(4, 4), Vertex(4, 0), Vertex(0, 4)>>))
MalformedCells ==
    {Unparsable, EmptyCell,
     Json([kind |-> "number", items |-> <<>>]),
     Json(Coords(<<Vertex(0, 0), Vertex(0, 4)>>)),
     Json(Coords(<<Vertex(0, 0), Vertex(Infinity, 4), Vertex(4, 0)>>))}
    \cup {Json(Coords(<<Vertex(0, 0), Vertex(0, 4), m>>)) : m \in MalformedEntries}
ZoneCells == {SquareA, SquareB, StripC, Bowtie} \cup MalformedCells

\* check_geofences as a function of the point and the rows of the zone file
InitGeo ==
    /\ MLIdle
    /\ lat \in PointCoords
    /\ lon \in PointCoords
    /\ polygon_coords = NoPolygon
    /\ contained = "none"
    /\ geofences \in UNION {[1..n -> ZoneCells] : n \in 0..MaxZones}
    /\ alert = NoAlert

SpecGeo == InitGeo /\ [][check_geofences]_vars

\* ------------------------------------------------------------- properties
\* C1: at every moment at most one execution of train_anomaly_model is in
\* progress among the monitor threads and the callers of force_retrain, and
\* whoever is in one holds retrain_lock.
C1_OneTrainingRun ==
    /\ Cardinality({w \in Threads \cup Forcers : Running(w)}) <= 1
    /\ \A w \in Threads \cup Forcers : Running(w) => retrain_lock = w

\* a forced run is in progress while the monitor and another caller of
\* force_retrain wait for the lock
C1_Contended ==
    \E t \in Threads, f \in Forcers, g \in Forcers :
        /\ f # g
        /\ Running(f)
        /\ pc[t] = "m_acquire"
        /\ pc[g] = "f_acquire"

\* C2: when a predict_anomaly call makes a score with an object that a
\* training run of this process created, the scaler and the model it uses
\* are the objects of one and the same training run.
C2_OneSnapshot ==
    \A p \in Readers :
        (rd[p].res = "score" /\ (rd[p].usedS \in NewRuns \/ rd[p].usedM \in NewRuns))
            => rd[p].usedS = rd[p].usedM

\* C3: whenever the monitor starts a training run, at least COOLDOWN seconds
\* have passed since the monitor started the one before.
C3_CooldownBetweenRuns ==
    [][\A t \in Threads :
          (pc[t] = "m_acquire" /\ pc'[t] = "t_begin")
              => sinceAutoStart >= COOLDOWN]_vars

\* C4: predict_anomaly never raises to its caller, a call that has ended has
\* returned the neutral default or a score, and a score was made with a
\* scaler and a model.
C4_PredictNeverRaises ==
    \A p \in Readers :
        /\ ~rd[p].raised
        /\ pc[p] = "p_done" => rd[p].res \in {Neutral, "score"}
        /\ (pc[p] = "p_done" /\ rd[p].res = "score")
               => (rd[p].usedS # None /\ rd[p].usedM # None)

\* a call that got past the None test of line 240 and then failed
C4_FailedInside ==
    \E p \in Readers : pc[p] = "p_done" /\ rd[p].res = Neutral /\ rd[p].n # 0

\* C5: force_retrain returns true exactly when the training run it started
\* ended successfully, and false when that run failed.
C5_ResultTellsOutcome ==
    [][\A f \in Forcers :
          (pc[f] = "f_return" /\ pc'[f] = "idle")
              => (fres'[f] = "true" <=> tr[f].ok = "ok")]_vars

\* C6: predict_anomaly never holds retrain_lock, and whoever holds the lock,
\* a predict_anomaly call can take its next step.
C6_ReadersNeverBlock ==
    \A p \in Readers :
        /\ retrain_lock # p
        /\ pc[StartupId] = "done" => ENABLED predict_anomaly(p)

\* a call has made its score with the objects of the training run that
\* holds the lock at this moment
C6_ServedDuringRun ==
    \E p \in Readers, t \in Threads :
        /\ retrain_lock = t
        /\ Running(t)
        /\ pc[p] = "p_done"
        /\ rd[p].res = "score"
        /\ rd[p].usedS = tr[t].obj
        /\ rd[p].usedM = tr[t].obj

\* C7: at most one monitor thread is alive, whatever Starts and Stops were
\* called.
C7_OneMonitor == Cardinality({t \in Threads : is_alive(t)}) <= 1

\* the monitor has been stopped and its thread is still alive: a Start
\* called now starts nothing
C7_StoppedStillAlive ==
    /\ pc[StartupId] = "done"
    /\ monitor_thread # None
    /\ is_alive(monitor_thread)
    /\ ~auto_retrain_enabled

\* C8: a monitor thread that is alive when auto_retrain_enabled is False
\* exits; at the top of the loop with the flag cleared its only step is the
\* exit; and clearing the flag leaves every thread, and the training run of
\* each, where it is.
C8_LoopExits ==
    /\ \A t \in Threads :
          (is_alive(t) /\ ~auto_retrain_enabled) ~> (pc[t] = "exited")
    /\ [][\A t \in Threads :
             (pc[t] = "m_top" /\ ~auto_retrain_enabled /\ pc'[t] # pc[t])
                 => pc'[t] = "exited"]_vars
    /\ [][(auto_retrain_enabled /\ ~auto_retrain_enabled')
             => (pc' = pc /\ tr' = tr)]_vars

\* the monitor is stopped while its training run is in flight
C8_StoppedInFlight ==
    \E t \in Threads : Running(t) /\ ~auto_retrain_enabled

\* C9: while load_or_train_model has not returned there is no monitor
\* thread, so none runs beside the loading or the training of the start-up.
C9_MonitorAfterStartup ==
    pc[StartupId] # "done"
        => (monitor_thread = None /\ \A t \in Threads : ~is_alive(t))

\* the training run of the load-error path has ended and the monitor is
\* about to be started
C9_TrainedBeforeStart ==
    /\ pc[StartupId] = "l_start"
    /\ bootBad
    /\ bootTrained
    /\ anomaly_model \in NewRuns
    /\ monitor_thread = None

\* C10: after a start-up that found an artifact missing or unreadable,
\* load_or_train_model has run a training before it returned, and no score
\* is made with one object loaded from disk and one that was not.
C10_NoHalfLoadedPair ==
    bootBad =>
        /\ pc[StartupId] = "done" => bootTrained
        /\ \A p \in Readers :
              rd[p].res = "score"
                  => ((rd[p].usedS \in OldRuns) <=> (rd[p].usedM \in OldRuns))

\* C11: the model and the scaler that load_or_train_model has activated from
\* disk are the artifacts of one and the same training run.
C11_LoadedPairOfOneRun ==
    (pc[StartupId] \in {"l_start", "done"}
        /\ anomaly_model \in OldRuns /\ scaler \in OldRuns)
        => anomaly_model = scaler

\* C12: once load_or_train_model has returned, anomaly_model and scaler are
\* both set at every later moment.
C12_AlwaysAModel ==
    pc[StartupId] = "done" => (anomaly_model # None /\ scaler # None)

C14_TooFewIsFalse ==
    (contained # "none" /\ Len(polygon_coords.items) < 3) => contained = "False"

\* a call with two entries, one of them not a pair of numbers, has returned
C14_TwoEntriesCalled ==
    /\ contained # "none"
    /\ Len(polygon_coords.items) = 2
    /\ \E i \in 1..2 : polygon_coords.items[i].kind = "object"

\* the entries of a polygon list as <<lat, lon>> pairs
VerticesOf(coords) == [i \in 1..Len(coords.items) |-> coords.items[i].xs]
Vertices == VerticesOf(polygon_coords)

\* coords is a list of at least three entries, each a pair of finite numbers
WellFormed(coords) ==
    /\ coords.kind = "list"
    /\ Len(coords.items) >= 3
    /\ \A i \in 1..Len(coords.items) :
        /\ coords.items[i].kind = "list"
        /\ Len(coords.items[i].xs) = 2
        /\ \A k \in 1..2 : coords.items[i].xs[k] # Infinity
ValidVertices == WellFormed(polygon_coords)

\* the point <<lat, lon>> is off every edge of the closed ring V, and the
\* half-line from it towards larger latitudes crosses an odd number of edges
StrictlyInside(V) ==
    LET n == Len(V)
        a(i) == V[i]
        b(i) == V[(i % n) + 1]
        on(i) == /\ (b(i)[1] - a(i)[1]) * (lon - a(i)[2])
                        = (b(i)[2] - a(i)[2]) * (lat - a(i)[1])
                 /\ (lat - a(i)[1]) * (lat - b(i)[1]) <= 0
                 /\ (lon - a(i)[2]) * (lon - b(i)[2]) <= 0
        \* the edge meets the meridian of the point at a latitude above it
        above(i) ==
            LET lo1 == a(i)[2]
                lo2 == b(i)[2]
                num == a(i)[1] * (lo2 - lo1) + (lon - lo1) * (b(i)[1] - a(i)[1])
            IN  /\ (lo1 <= lon) # (lo2 <= lon)
                /\ IF lo2 > lo1 THEN num > lat * (lo2 - lo1)
                                ELSE num < lat * (lo2 - lo1)
    IN  /\ \A i \in 1..n : ~on(i)
        /\ Cardinality({i \in 1..n : above(i)}) % 2 = 1

\* the point lies outside the smallest rectangle around the vertices V
FarOutside(V) ==
    \/ \A i \in 1..Len(V) : lat > V[i][1]
    \/ \A i \in 1..Len(V) : lat < V[i][1]
    \/ \A i \in 1..Len(V) : lon > V[i][2]
    \/ \A i \in 1..Len(V) : lon < V[i][2]

\* C15 as stated: for every polygon of at least three valid vertices,
\* point_in_polygon returns True for a point strictly inside it and False
\* for a point far outside it.
C15_InsideIsContained ==
    (contained # "none" /\ ValidVertices) =>
        /\ StrictlyInside(Vertices) => contained = "True"
        /\ FarOutside(Vertices) => contained = "False"

\* C15: for every polygon of at least three valid vertices whose ring is
\* simple and encloses an area (a valid polygon), point_in_polygon returns
\* True for a point strictly inside it and False for a point far outside it.
C15_InsideValidIsContained ==
    (contained # "none" /\ ValidVertices /\ is_valid(Vertices)) =>
        /\ StrictlyInside(Vertices) => contained = "True"
        /\ FarOutside(Vertices) => contained = "False"

\* the square of four vertices has been tested with its centroid
C15_SquareCentroid ==
    /\ contained = "True"
    /\ polygon_coords = Coords(<<Vertex(0, 0), Vertex(0, 4), Vertex(4, 4), Vertex(4, 0)>>)
    /\ lat = 2
    /\ lon = 2

\* row i of the zone file holds a valid polygon with the point strictly
\* inside it
ZoneContains(i) ==
    /\ geofences[i].kind = "json"
    /\ WellFormed(geofences[i].value)
    /\ is_valid(VerticesOf(geofences[i].value))
    /\ StrictlyInside(VerticesOf(geofences[i].value))

\* C16: check_geofences returns the first row, in the order of the file,
\* whose polygon contains the point, and None only when no row does.
C16_FirstZoneWins ==
    alert.called =>
        LET matching == {i \in 1..Len(geofences) : ZoneContains(i)}
        IN  IF matching = {} THEN alert.zone = 0
            ELSE /\ alert.zone \in matching
                 /\ \A i \in matching : alert.zone <= i

\* two rows contain the point, the first row does not, and the call is over
C16_TwoZonesOverlap ==
    /\ alert.called
    /\ Len(geofences) = 3
    /\ alert.zone = 2
    /\ ZoneContains(2)
    /\ ZoneContains(3)
    /\ geofences[2] # geofences[3]

\* C17: a malformed row is never fatal and never hides another row:
\* check_geofences raises nothing, never returns a malformed row, and
\* returns a valid row that contains the point when only malformed rows
\* come before it.
C17_MalformedNeverFatal ==
    alert.called =>
        /\ alert.raised = "none"
        /\ alert.zone # 0 => geofences[alert.zone] \notin MalformedCells
        /\ \A i \in 1..Len(geofences) :
               (ZoneContains(i) /\ \A j \in 1..(i - 1) : geofences[j] \in MalformedCells)
                   => alert.zone = i

\* the third row was returned after text json.loads rejects and a polygon
\* whose entry is an object rather than a pair
C17_ValidAfterMalformed ==
    /\ alert.called
    /\ alert.zone = 3
    /\ geofences[1] = Unparsable
    /\ geofences[2].kind = "json"
    /\ \E k \in 1..Len(geofences[2].value.items) :
           geofences[2].value.items[k].kind = "object"

C20_CooldownSinceAnyRun ==
    [][\A t \in Threads :
          (pc[t] = "m_acquire" /\ pc'[t] = "t_begin")
              => (last_training_time = NoTime \/ last_training_time >= COOLDOWN)]_vars

\* C21: last_data_hash is set to a fingerprint the monitor has just observed
\* only while the monitor holds retrain_lock and after the training run it
\* made for it has succeeded; and when a run of the monitor has failed, the
\* stored fingerprint is not the one of the current data.
C21_FingerprintAfterTraining ==
    /\ [][(last_data_hash' # last_data_hash
              /\ last_data_hash' \in {CurrentFp, HashError})
            => \E t \in Threads :
                  /\ retrain_lock = t
                  /\ pc[t] = "m_release"
                  /\ tr[t].ok = "ok"]_vars
    /\ [](\A t \in Threads :
              (pc[t] = "m_release" /\ tr[t].ok = "failed")
                  => last_data_hash # CurrentFp)

C23_LoopSurvivesFailure ==
    /\ [][\A t \in Threads :
             (pc[t] # "exited" /\ pc'[t] = "exited") => ~auto_retrain_enabled]_vars
    /\ [][\A t \in Threads :
             (pc[t] = "m_release" /\ pc'[t] # pc[t])
                 => (pc'[t] = "m_sleep" /\ remaining'[t] = POLL)]_vars
    /\ \A t \in Threads :
          (pc[t] = "m_release" /\ tr[t].ok = "failed") ~> (pc[t] = "m_top")
    /\ \A t \in Threads :
          (pc[t] = "m_acquire" /\ last_data_hash = HashError) ~> (pc[t] = "m_top")

\* the training run of a cycle has failed and the monitor is not stopped
C23_CycleFailed ==
    \E t \in Threads :
        /\ pc[t] = "m_release"
        /\ tr[t].ok = "failed"
        /\ auto_retrain_enabled
        /\ last_data_hash = HashError

\* C24: when a training run fails, neither the active scaler nor the active
\* model is an object that run made: the pair is the one from before the run.
C24_FailedRunKeepsSnapshot ==
    [][\A w \in Trainers :
          (tr[w].obj # None /\ tr'[w].obj = None /\ tr'[w].ok = "failed")
              => (scaler # tr[w].obj /\ anomaly_model # tr[w].obj)]_vars

\* C25: a Start called after a Stop brings the scheduler back to Running:
\* in every state where the monitor has been stopped, the thread that saw
\* the Stop or not, a call of start_auto_retrain_monitor leaves
\* auto_retrain_enabled true and a monitor thread alive.
C25_StartAfterStopRuns ==
    (pc[StartupId] = "done" /\ ~auto_retrain_enabled)
        => ENABLED (/\ Start
                    /\ auto_retrain_enabled'
                    /\ \E t \in Threads : pc'[t] \notin {"unborn", "exited"})

\* C26: once a force_retrain has returned and no other is under way, the
\* monitor decides for a training run only against a stored fingerprint, the
\* one of the data the latest run was based on: with the data unchanged since
\* the forced run it starts no further run.
C26_NoRunAfterForce ==
    [][\A t \in Threads :
          (/\ pc[t] = "m_hash" /\ pc'[t] = "m_acquire"
           /\ \A f \in Forcers : pc[f] = "idle"
           /\ \E f \in Forcers : fres[f] = "true")
              => last_data_hash # NoHash]_vars

\* C27: a step of a predict_anomaly call, one that succeeds or one that
\* fails, leaves the active scaler and model and what they were fitted on,
\* last_training_time, last_data_hash, retrain_lock, the monitor flag, the
\* monitor thread and where it is, and the two artifact files as they were.
C27_PredictChangesNothing ==
    [][(\E p \in Readers : pc'[p] # pc[p])
          => /\ scaler' = scaler
             /\ anomaly_model' = anomaly_model
             /\ scaler # None => ScalerFields(scaler)' = ScalerFields(scaler)
             /\ anomaly_model # None
                    => ModelFields(anomaly_model)' = ModelFields(anomaly_model)
             /\ UNCHANGED <<filesML, last_training_time, last_data_hash,
                            retrain_lock, auto_retrain_enabled, monitor_thread>>
             /\ \A t \in Threads : pc'[t] = pc[t] /\ tr'[t] = tr[t]]_vars
C27_PredictedBesideTraining ==
    \E p \in Readers :
        /\ pc[p] = "p_done"
        /\ rd[p].res \in {"score", Neutral}
        /\ scaler # None /\ anomaly_model # None
        /\ \E t \in Threads : pc[t] \in {"t_scaler_fit", "t_model_fit", "t_dump_model"}

====
